---- MODULE Spec2Model ----
(***************************************************************************)
(* CrashServer (src/src/server.ts): the step engine of crash-mcp.          *)
(*                                                                         *)
(* The engine is modelled as a record `e` holding the fields of the        *)
(* CrashServer instance; every method is an operator from an engine record *)
(* (and its arguments) to the engine record after the call, so that the    *)
(* order of the mutations inside processStep is the order of the code.     *)
(*                                                                         *)
(* Objects and references.  History objects live in the sequence e.hist;   *)
(* a history reference is an index into it, and e.history is the reference *)
(* held by this.history.  A step object lives in the steps list of the one *)
(* history it was pushed into; a reference to it (as held by stepIndex) is *)
(* the pair [h, i] of that history and its position in that list.          *)
(* Branch.steps holds the step_number of each step pushed to the branch:   *)
(* step_number is the only property the engine reads through that list     *)
(* (calculateBranchDepth, server.ts:165).                                  *)
(***************************************************************************)
EXTENDS Integers, Sequences, FiniteSets, TLC

VARIABLES
    config,             \* this.config (never assigned after construction)
    history,            \* this.history: reference to the active history
    hist,               \* the history objects created so far
    branches,           \* this.branches (insertion-ordered map)
    sessions,           \* this.sessions
    stepIndex,          \* this.stepIndex: step_number -> step reference
    stepNumbers,        \* this.stepNumbers
    toolsUsedSet,       \* this.toolsUsedSet (insertion-ordered set)
    stepsSinceCleanup,  \* this.stepsSinceCleanup
    branchDepthCache,   \* this.branchDepthCache
    now,                \* the clock read by Date.now(), in milliseconds
    resp,               \* what the last operation returned to its caller
    log,                \* history: every step pushed so far, with its history
    calls,              \* number of operations performed (bounds the model)
    transport           \* tool calls the transport has received and not answered

vars == <<config, history, hist, branches, sessions, stepIndex, stepNumbers,
          toolsUsedSet, stepsSinceCleanup, branchDepthCache, now, resp, log,
          calls, transport>>

----------------------------------------------------------------------------
(* Bounds of the model *)

\* operations (processStep, clearHistory, cleanup, clock ticks) per behaviour
MaxCalls == 3

\* step numbers used by the callers: 1..MaxStepNumber
MaxStepNumber == 3

----------------------------------------------------------------------------
(* Finite maps and sequences *)

EmptyMap == [k \in {} |-> 0]

MapSet(m, k, v) == [x \in (DOMAIN m) \cup {k} |-> IF x = k THEN v ELSE m[x]]

MapDelete(m, ks) == [x \in (DOMAIN m) \ ks |-> m[x]]

Range(s) == {s[i] : i \in DOMAIN s}

Min(a, b) == IF a <= b THEN a ELSE b

\* Array.prototype.slice(0, -n) for n >= 0  (slice(0, -0) is slice(0, 0))
SliceHead(s, n) ==
    IF n = 0 \/ n >= Len(s) THEN <<>> ELSE SubSeq(s, 1, Len(s) - n)

\* a trim that keeps one step too many: slice(-(n + 1))
SliceTailOneMore(s, n) ==
    IF n + 1 >= Len(s) THEN s ELSE SubSeq(s, Len(s) - n, Len(s))

\* a trim that keeps the oldest steps instead of the newest: slice(0, n)
SliceTailOldest(s, n) == IF n >= Len(s) THEN s ELSE SubSeq(s, 1, n)

\* Array.prototype.slice(-n) for n >= 0  (slice(-0) is slice(0): everything)
SliceTail(s, n) ==
    IF n = 0 \/ n >= Len(s) THEN s ELSE SubSeq(s, Len(s) - n + 1, Len(s))

\* Set.prototype.add on an insertion-ordered set kept as a sequence
SetAdd(s, x) == IF x \in Range(s) THEN s ELSE Append(s, x)

RECURSIVE SetAddAll(_, _)
SetAddAll(s, xs) ==
    IF xs = <<>> THEN s ELSE SetAddAll(SetAdd(s, Head(xs)), Tail(xs))

----------------------------------------------------------------------------
(* JavaScript values of the validated fields *)

Undefined == [t |-> "undefined"]

\* a number: n is its floor, frac says it has a fractional part
Number(k) == [t |-> "number", n |-> k, frac |-> FALSE, nan |-> FALSE]
Fraction(k) == [t |-> "number", n |-> k, frac |-> TRUE, nan |-> FALSE]
NaN == [t |-> "number", n |-> 0, frac |-> FALSE, nan |-> TRUE]

\* a string, as the sequence of its tokens; " " is white space
String(toks) == [t |-> "string", s |-> toks]

\* a StructuredAction object {tool?, action}
Action(act, tool) == [t |-> "object", action |-> act, tool |-> tool]

\* String.prototype.trim
RECURSIVE TrimLeft(_)
TrimLeft(s) == IF s # <<>> /\ Head(s) = " " THEN TrimLeft(Tail(s)) ELSE s

RECURSIVE TrimRight(_)
TrimRight(s) ==
    IF s # <<>> /\ s[Len(s)] = " " THEN TrimRight(SubSeq(s, 1, Len(s) - 1)) ELSE s

Trim(s) == TrimRight(TrimLeft(s))

\* String.prototype.toLowerCase on one token
ToLowerCase(tok) ==
    CASE tok = "ANALYSIS" -> "analysis"
      [] tok = "Analysis" -> "analysis"
      [] tok = "I have completed " -> "i have completed "
      [] tok = "I have completed" -> "i have completed"
      [] tok = "Task completed" -> "task completed"
      [] tok = "TASK COMPLETED" -> "task completed"
      [] tok = "Solution found" -> "solution found"
      [] OTHER -> tok

\* String.prototype.startsWith(prefix), prefix one token
StartsWith(s, prefix) == s # <<>> /\ Head(s) = prefix

----------------------------------------------------------------------------
(* constants.ts *)

VALID_PREFIXES ==
    {"OK, I ", "But ", "Wait ", "Therefore ", "I see the issue now. ",
     "I have completed "}

VALID_PURPOSES ==
    {"analysis", "action", "reflection", "decision", "summary", "validation",
     "exploration", "hypothesis", "correction", "planning"}

COMPLETION_PHRASES == {"I have completed", "Task completed", "Solution found"}

SESSION_CLEANUP_INTERVAL == 10

----------------------------------------------------------------------------
(* config.ts *)

DEFAULT_CONFIG ==
    [ requireThoughtPrefix   |-> FALSE,
      requireRationalePrefix |-> FALSE,
      allowCustomPurpose     |-> TRUE,
      strictMode             |-> FALSE,
      enableRevisions        |-> TRUE,
      enableBranching        |-> TRUE,
      enableSessions         |-> FALSE,
      maxHistorySize         |-> 100,
      maxBranchDepth         |-> 5,
      sessionTimeout         |-> 60 ]

\* loadConfig with CRASH_STRICT_MODE=true
StrictConfig(c) ==
    [c EXCEPT !.strictMode = TRUE, !.requireThoughtPrefix = TRUE,
              !.requireRationalePrefix = TRUE, !.allowCustomPurpose = FALSE]

----------------------------------------------------------------------------
(* The input of processStep *)

\* createBaseStep of the tests: a valid step with no optional field set.
\* Optional fields hold their falsy value when absent: 0, "", <<>>, {}, FALSE.
BaseStep ==
    [ kind            |-> "object",
      step_number     |-> Number(1),
      estimated_total |-> Number(3),
      purpose         |-> String(<<"analysis">>),
      context         |-> String(<<"Test context">>),
      thought         |-> String(<<"Test thought">>),
      outcome         |-> String(<<"Test outcome">>),
      next_action     |-> String(<<"Test next action">>),
      rationale       |-> String(<<"Test rationale">>),
      confidence      |-> Undefined,
      revises_step    |-> 0,
      branch_from     |-> 0,
      branch_id       |-> "",
      branch_name     |-> "",
      tools_used      |-> <<>>,
      dependencies    |-> {},
      session_id      |-> "",
      is_final_step   |-> FALSE,
      revised_by      |-> 0 ]

\* processStep(null) / processStep(undefined), and a primitive such as 5
NullInput == [BaseStep EXCEPT !.kind = "null"]
PrimitiveInput == [BaseStep EXCEPT !.kind = "primitive"]

\* step.<field>: every property of a primitive reads as undefined
Field(step, f) == IF step.kind = "primitive" THEN Undefined ELSE step[f]

\* step.step_number of a step that passed validateRequiredFields
Num(step) == step.step_number.n

----------------------------------------------------------------------------
(* The engine: the fields of a CrashServer instance as one record *)

createNewHistory ==
    [ steps            |-> <<>>,
      branches         |-> <<>>,
      completed        |-> FALSE,
      revisions_count  |-> 0,
      branches_created |-> 0,
      tools_used       |-> <<>> ]

\* this.history.steps
Steps(e) == e.hist[e.history].steps

validateThoughtPrefix(cfg, thought) ==
    IF ~cfg.requireThoughtPrefix THEN TRUE
    ELSE \E prefix \in VALID_PREFIXES : StartsWith(thought.s, prefix)

validateRationale(cfg, rationale) ==
    IF ~cfg.requireRationalePrefix THEN TRUE
    ELSE StartsWith(rationale.s, "To ")

\* purpose.toLowerCase() of a one-word purpose
validatePurpose(cfg, purpose) ==
    IF cfg.allowCustomPurpose THEN TRUE
    ELSE Len(purpose.s) = 1 /\ ToLowerCase(purpose.s[1]) \in VALID_PURPOSES

extractToolsUsed(step) ==
    SetAddAll(<<>>,
        step.tools_used \o
        (IF step.next_action.t = "object" /\ step.next_action.tool # ""
            THEN <<step.next_action.tool>> ELSE <<>>))

sessionTimeoutMs(cfg) == cfg.sessionTimeout * 60 * 1000

\* a cleanupExpiredSessions that also removes a session whose age equals the
\* timeout
cleanupExpiredSessionsEager(e, force, t) ==
    IF ~e.config.enableSessions THEN e
    ELSE LET n == e.stepsSinceCleanup + 1 IN
         IF ~force /\ n < SESSION_CLEANUP_INTERVAL
         THEN [e EXCEPT !.stepsSinceCleanup = n]
         ELSE LET expired == {sid \in DOMAIN e.sessions :
                                t - e.sessions[sid].lastAccessed
                                    >= sessionTimeoutMs(e.config)}
              IN [e EXCEPT !.stepsSinceCleanup = 0,
                           !.sessions = MapDelete(e.sessions, expired)]

\* a cleanupExpiredSessions that sweeps one invocation later
cleanupExpiredSessionsLate(e, force, t) ==
    IF ~e.config.enableSessions THEN e
    ELSE LET n == e.stepsSinceCleanup + 1 IN
         IF ~force /\ n <= SESSION_CLEANUP_INTERVAL
         THEN [e EXCEPT !.stepsSinceCleanup = n]
         ELSE LET expired == {sid \in DOMAIN e.sessions :
                                t - e.sessions[sid].lastAccessed
                                    > sessionTimeoutMs(e.config)}
              IN [e EXCEPT !.stepsSinceCleanup = 0,
                           !.sessions = MapDelete(e.sessions, expired)]

cleanupExpiredSessions(e, force, t) ==
    IF ~e.config.enableSessions THEN e
    ELSE LET n == e.stepsSinceCleanup + 1 IN
         IF ~force /\ n < SESSION_CLEANUP_INTERVAL
         THEN [e EXCEPT !.stepsSinceCleanup = n]
         ELSE LET expired == {sid \in DOMAIN e.sessions :
                                t - e.sessions[sid].lastAccessed
                                    > sessionTimeoutMs(e.config)}
              IN [e EXCEPT !.stepsSinceCleanup = 0,
                           !.sessions = MapDelete(e.sessions, expired)]

isNonEmptyString(value) == value.t = "string" /\ Len(Trim(value.s)) > 0

\* typeof v !== 'number' || v < 1 || !Number.isInteger(v)
NotPositiveInteger(v) ==
    v.t # "number" \/ (~v.nan /\ v.n < 1) \/ v.frac \/ v.nan

\* a validateRequiredFields that stops at the first offending field
validateRequiredFieldsFirst(step) ==
    LET all ==
        LET na == Field(step, "next_action")
            text(f) == IF ~isNonEmptyString(Field(step, f)) THEN <<f>> ELSE <<>>
        IN  (IF NotPositiveInteger(Field(step, "step_number"))
                THEN <<"step_number (must be positive integer >= 1)">> ELSE <<>>)
            \o (IF NotPositiveInteger(Field(step, "estimated_total"))
                THEN <<"estimated_total (must be positive integer >= 1)">> ELSE <<>>)
            \o text("purpose") \o text("context") \o text("thought")
            \o text("outcome") \o text("rationale")
            \o (IF na.t = "string"
                  THEN (IF ~isNonEmptyString(na) THEN <<"next_action">> ELSE <<>>)
                ELSE IF na.t = "object"
                  THEN (IF ~isNonEmptyString(na.action)
                          THEN <<"next_action.action">> ELSE <<>>)
                ELSE <<"next_action">>)
    IN IF all = <<>> THEN <<>> ELSE <<Head(all)>>

\* the list `missing` of validateRequiredFields
validateRequiredFields(step) ==
    LET na == Field(step, "next_action")
        text(f) == IF ~isNonEmptyString(Field(step, f)) THEN <<f>> ELSE <<>>
    IN  (IF NotPositiveInteger(Field(step, "step_number"))
            THEN <<"step_number (must be positive integer >= 1)">> ELSE <<>>)
        \o (IF NotPositiveInteger(Field(step, "estimated_total"))
            THEN <<"estimated_total (must be positive integer >= 1)">> ELSE <<>>)
        \o text("purpose") \o text("context") \o text("thought")
        \o text("outcome") \o text("rationale")
        \o (IF na.t = "string"
              THEN (IF ~isNonEmptyString(na) THEN <<"next_action">> ELSE <<>>)
            ELSE IF na.t = "object"
              THEN (IF ~isNonEmptyString(na.action)
                      THEN <<"next_action.action">> ELSE <<>>)
            ELSE <<"next_action">>)

\* a validateConfidence whose bounds exclude 0 and 1
validateConfidenceExclusive(step) ==
    LET c == step.confidence IN
    IF c.t = "undefined" THEN ""
    ELSE IF c.t # "number" \/ c.nan THEN "Confidence must be a number"
    ELSE IF c.n < 0 \/ c.n >= 1 \/ (c.n = 0 /\ ~c.frac)
         THEN "Confidence out of bounds [0, 1]"
    ELSE ""

\* validateConfidence: "" when valid, else the error message
validateConfidence(step) ==
    LET c == step.confidence IN
    IF c.t = "undefined" THEN ""
    ELSE IF c.t # "number" \/ c.nan THEN "Confidence must be a number"
    ELSE IF c.n < 0 \/ c.n > 1 \/ (c.n = 1 /\ c.frac)
         THEN "Confidence out of bounds [0, 1]"
    ELSE ""

----------------------------------------------------------------------------
(* Revisions *)

\* a handleRevision that rejects only r > step_number (a step may revise itself)
handleRevisionSelf(e, step) ==
    IF step.revises_step = 0 \/ ~e.config.enableRevisions
    THEN [valid |-> TRUE, error |-> "", detail |-> <<>>, e |-> e]
    ELSE IF step.revises_step > Num(step)
    THEN [valid |-> FALSE,
          error |-> "Cannot revise step: can only revise earlier steps",
          detail |-> <<step.revises_step, Num(step)>>,
          e |-> e]
    ELSE LET marked ==
                 IF step.revises_step \in DOMAIN e.stepIndex
                 THEN LET originalStep == e.stepIndex[step.revises_step]
                      IN [e EXCEPT !.hist[originalStep.h].steps[originalStep.i]
                                        .revised_by = Num(step)]
                 ELSE e
         IN [valid |-> TRUE, error |-> "", detail |-> <<>>,
             e |-> [marked EXCEPT !.hist[e.history].revisions_count = @ + 1]]

\* a handleRevision that does not look at features.enableRevisions
handleRevisionAlways(e, step) ==
    IF step.revises_step = 0
    THEN [valid |-> TRUE, error |-> "", detail |-> <<>>, e |-> e]
    ELSE IF step.revises_step >= Num(step)
    THEN [valid |-> FALSE,
          error |-> "Cannot revise step: can only revise earlier steps",
          detail |-> <<step.revises_step, Num(step)>>,
          e |-> e]
    ELSE LET marked ==
                 IF step.revises_step \in DOMAIN e.stepIndex
                 THEN LET originalStep == e.stepIndex[step.revises_step]
                      IN [e EXCEPT !.hist[originalStep.h].steps[originalStep.i]
                                        .revised_by = Num(step)]
                 ELSE e
         IN [valid |-> TRUE, error |-> "", detail |-> <<>>,
             e |-> [marked EXCEPT !.hist[e.history].revisions_count = @ + 1]]

\* handleRevision: [valid, error, detail, e]
handleRevision(e, step) ==
    IF step.revises_step = 0 \/ ~e.config.enableRevisions
    THEN [valid |-> TRUE, error |-> "", detail |-> <<>>, e |-> e]
    ELSE IF step.revises_step >= Num(step)
    THEN [valid |-> FALSE,
          error |-> "Cannot revise step: can only revise earlier steps",
          detail |-> <<step.revises_step, Num(step)>>,
          e |-> e]
    ELSE LET marked ==
                 IF step.revises_step \in DOMAIN e.stepIndex
                 THEN LET originalStep == e.stepIndex[step.revises_step]
                      IN [e EXCEPT !.hist[originalStep.h].steps[originalStep.i]
                                        .revised_by = Num(step)]
                 ELSE e
         IN [valid |-> TRUE, error |-> "", detail |-> <<>>,
             e |-> [marked EXCEPT !.hist[e.history].revisions_count = @ + 1]]

----------------------------------------------------------------------------
(* Branching *)

BranchIds(e) == {e.branches[i].id : i \in DOMAIN e.branches}

\* this.branches.get(id), for an id the map has
BranchAt(e, id) == CHOOSE i \in DOMAIN e.branches : e.branches[i].id = id

\* a depth computation that takes every step for a main-line step
calculateBranchDepthFlat(e, stepNumber) ==
    IF stepNumber \in DOMAIN e.branchDepthCache
    THEN [depth |-> e.branchDepthCache[stepNumber], e |-> e]
    ELSE [depth |-> 1,
          e |-> [e EXCEPT !.branchDepthCache = MapSet(@, stepNumber, 1)]]

\* calculateBranchDepth: [depth, e] (the call fills the cache)
calculateBranchDepth(e, stepNumber) ==
    IF stepNumber \in DOMAIN e.branchDepthCache
    THEN [depth |-> e.branchDepthCache[stepNumber], e |-> e]
    ELSE LET holders == {i \in DOMAIN e.branches :
                            stepNumber \in Range(e.branches[i].steps)}
             depth == IF holders = {} THEN 1
                      ELSE e.branches[CHOOSE i \in holders :
                                        \A j \in holders : i <= j].depth + 1
         IN [depth |-> depth,
             e |-> [e EXCEPT !.branchDepthCache = MapSet(@, stepNumber, depth)]]

invalidateBranchDepthCache(e) == [e EXCEPT !.branchDepthCache = EmptyMap]

\* a handleBranching that keeps the depth cache when it registers a branch
handleBranchingKeepsCache(e, step, t) ==
    IF step.branch_from = 0 \/ ~e.config.enableBranching
    THEN [success |-> TRUE, error |-> "", detail |-> <<>>, e |-> e, step |-> step]
    ELSE IF step.branch_from \notin e.stepNumbers
    THEN [success |-> FALSE,
          error |-> "Cannot branch from step: step does not exist",
          detail |-> <<step.branch_from>>,
          e |-> e, step |-> step]
    ELSE
    LET branchId == IF step.branch_id # "" THEN step.branch_id
                    ELSE "branch-" \o ToString(t)
        branchName == IF step.branch_name # "" THEN step.branch_name
                      ELSE "Alternative " \o ToString(Len(e.branches) + 1)
        d == calculateBranchDepth(e, step.branch_from)
        newBranch == [ id        |-> branchId,
                       name      |-> branchName,
                       from_step |-> step.branch_from,
                       steps     |-> <<>>,
                       status    |-> "active",
                       depth     |-> d.depth ]
        created == [d.e EXCEPT
                       !.branches = Append(@, newBranch),
                       !.hist[e.history].branches_created = @ + 1]
        e1 == IF branchId \in BranchIds(e) THEN e ELSE created
        tagged == [step EXCEPT !.branch_id = branchId]
    IN  IF branchId \notin BranchIds(e) /\ d.depth > e.config.maxBranchDepth
        THEN [success |-> FALSE,
              error |-> "Branch depth exceeds maximum",
              detail |-> <<d.depth, e.config.maxBranchDepth>>,
              e |-> d.e, step |-> step]
        ELSE [success |-> TRUE, error |-> "", detail |-> <<>>,
              e |-> [e1 EXCEPT !.branches[BranchAt(e1, branchId)].steps =
                                    Append(@, Num(step))],
              step |-> tagged]

\* a handleBranching that registers a branch whatever its depth
handleBranchingUnbounded(e, step, t) ==
    IF step.branch_from = 0 \/ ~e.config.enableBranching
    THEN [success |-> TRUE, error |-> "", detail |-> <<>>, e |-> e, step |-> step]
    ELSE IF step.branch_from \notin e.stepNumbers
    THEN [success |-> FALSE,
          error |-> "Cannot branch from step: step does not exist",
          detail |-> <<step.branch_from>>,
          e |-> e, step |-> step]
    ELSE
    LET branchId == IF step.branch_id # "" THEN step.branch_id
                    ELSE "branch-" \o ToString(t)
        branchName == IF step.branch_name # "" THEN step.branch_name
                      ELSE "Alternative " \o ToString(Len(e.branches) + 1)
        d == calculateBranchDepth(e, step.branch_from)
        newBranch == [ id        |-> branchId,
                       name      |-> branchName,
                       from_step |-> step.branch_from,
                       steps     |-> <<>>,
                       status    |-> "active",
                       depth     |-> d.depth ]
        created == [invalidateBranchDepthCache(d.e) EXCEPT
                       !.branches = Append(@, newBranch),
                       !.hist[e.history].branches_created = @ + 1]
        e1 == IF branchId \in BranchIds(e) THEN e ELSE created
        tagged == [step EXCEPT !.branch_id = branchId]
    IN  IF FALSE
        THEN [success |-> FALSE,
              error |-> "Branch depth exceeds maximum",
              detail |-> <<d.depth, e.config.maxBranchDepth>>,
              e |-> d.e, step |-> step]
        ELSE [success |-> TRUE, error |-> "", detail |-> <<>>,
              e |-> [e1 EXCEPT !.branches[BranchAt(e1, branchId)].steps =
                                    Append(@, Num(step))],
              step |-> tagged]

\* a handleBranching that counts a branch each time its id is used
handleBranchingCountsUse(e, step, t) ==
    IF step.branch_from = 0 \/ ~e.config.enableBranching
    THEN [success |-> TRUE, error |-> "", detail |-> <<>>, e |-> e, step |-> step]
    ELSE IF step.branch_from \notin e.stepNumbers
    THEN [success |-> FALSE,
          error |-> "Cannot branch from step: step does not exist",
          detail |-> <<step.branch_from>>,
          e |-> e, step |-> step]
    ELSE
    LET branchId == IF step.branch_id # "" THEN step.branch_id
                    ELSE "branch-" \o ToString(t)
        branchName == IF step.branch_name # "" THEN step.branch_name
                      ELSE "Alternative " \o ToString(Len(e.branches) + 1)
        d == calculateBranchDepth(e, step.branch_from)
        newBranch == [ id        |-> branchId,
                       name      |-> branchName,
                       from_step |-> step.branch_from,
                       steps     |-> <<>>,
                       status    |-> "active",
                       depth     |-> d.depth ]
        created == [invalidateBranchDepthCache(d.e) EXCEPT
                       !.branches = Append(@, newBranch),
                       !.hist[e.history].branches_created = @ + 1]
        e1 == IF branchId \in BranchIds(e)
              THEN [e EXCEPT !.hist[e.history].branches_created = @ + 1]
              ELSE created
        tagged == [step EXCEPT !.branch_id = branchId]
    IN  IF branchId \notin BranchIds(e) /\ d.depth > e.config.maxBranchDepth
        THEN [success |-> FALSE,
              error |-> "Branch depth exceeds maximum",
              detail |-> <<d.depth, e.config.maxBranchDepth>>,
              e |-> d.e, step |-> step]
        ELSE [success |-> TRUE, error |-> "", detail |-> <<>>,
              e |-> [e1 EXCEPT !.branches[BranchAt(e1, branchId)].steps =
                                    Append(@, Num(step))],
              step |-> tagged]

\* handleBranching: [success, error, detail, e, step]
\* (the call tags step.branch_id)
handleBranching(e, step, t) ==
    IF step.branch_from = 0 \/ ~e.config.enableBranching
    THEN [success |-> TRUE, error |-> "", detail |-> <<>>, e |-> e, step |-> step]
    ELSE IF step.branch_from \notin e.stepNumbers
    THEN [success |-> FALSE,
          error |-> "Cannot branch from step: step does not exist",
          detail |-> <<step.branch_from>>,
          e |-> e, step |-> step]
    ELSE
    LET branchId == IF step.branch_id # "" THEN step.branch_id
                    ELSE "branch-" \o ToString(t)
        branchName == IF step.branch_name # "" THEN step.branch_name
                      ELSE "Alternative " \o ToString(Len(e.branches) + 1)
        d == calculateBranchDepth(e, step.branch_from)
        newBranch == [ id        |-> branchId,
                       name      |-> branchName,
                       from_step |-> step.branch_from,
                       steps     |-> <<>>,
                       status    |-> "active",
                       depth     |-> d.depth ]
        created == [invalidateBranchDepthCache(d.e) EXCEPT
                       !.branches = Append(@, newBranch),
                       !.hist[e.history].branches_created = @ + 1]
        e1 == IF branchId \in BranchIds(e) THEN e ELSE created
        tagged == [step EXCEPT !.branch_id = branchId]
    IN  IF branchId \notin BranchIds(e) /\ d.depth > e.config.maxBranchDepth
        THEN [success |-> FALSE,
              error |-> "Branch depth exceeds maximum",
              detail |-> <<d.depth, e.config.maxBranchDepth>>,
              e |-> d.e, step |-> step]
        ELSE [success |-> TRUE, error |-> "", detail |-> <<>>,
              e |-> [e1 EXCEPT !.branches[BranchAt(e1, branchId)].steps =
                                    Append(@, Num(step))],
              step |-> tagged]

----------------------------------------------------------------------------
(* Dependencies *)

\* a validateDependencies that only knows the self-dependency as circular
validateDependenciesSelfOnly(e, step) ==
    IF step.dependencies = {}
    THEN [valid |-> TRUE, missing |-> {}, circular |-> FALSE]
    ELSE IF Num(step) \in step.dependencies
    THEN [valid |-> FALSE, missing |-> {}, circular |-> TRUE]
    ELSE LET missing == {dep \in step.dependencies : dep \notin e.stepNumbers}
         IN [valid |-> missing = {}, missing |-> missing, circular |-> FALSE]

\* validateDependencies: [valid, missing, circular]
validateDependencies(e, step) ==
    IF step.dependencies = {}
    THEN [valid |-> TRUE, missing |-> {}, circular |-> FALSE]
    ELSE IF Num(step) \in step.dependencies
    THEN [valid |-> FALSE, missing |-> {}, circular |-> TRUE]
    ELSE LET futureDeps == {dep \in step.dependencies : dep >= Num(step)}
             missing == {dep \in step.dependencies : dep \notin e.stepNumbers}
         IN IF futureDeps # {}
            THEN [valid |-> FALSE, missing |-> futureDeps, circular |-> TRUE]
            ELSE [valid |-> missing = {}, missing |-> missing,
                  circular |-> FALSE]

----------------------------------------------------------------------------
(* Trimming *)

trimHistory(e) ==
    LET steps == Steps(e)
        max == e.config.maxHistorySize
    IN
    IF Len(steps) <= max THEN e
    ELSE
    LET oldSteps == SliceHead(steps, max)
        removedStepNumbers == {Num(oldSteps[i]) : i \in DOMAIN oldSteps}
        kept == SliceTail(steps, max)
        \* the retained step objects move down by the number of steps dropped
        shift == Len(steps) - Len(kept)
        keys == (DOMAIN e.stepIndex) \ removedStepNumbers
    IN [invalidateBranchDepthCache(e) EXCEPT
          !.hist[e.history].steps = kept,
          !.stepIndex = [k \in keys |->
                            IF e.stepIndex[k].h = e.history
                            THEN [h |-> e.history, i |-> e.stepIndex[k].i - shift]
                            ELSE e.stepIndex[k]],
          !.stepNumbers = @ \ removedStepNumbers,
          !.branches = SelectSeq(@, LAMBDA b : b.from_step \notin removedStepNumbers)]

----------------------------------------------------------------------------
(* processStep *)

\* a hint that does not look at strictMode
HintFlexibleOnly(cfg) == "Check that all required fields are provided."

\* the hint of a failure response (server.ts:550-552)
Hint(cfg) ==
    IF cfg.strictMode
    THEN "Strict mode is enabled. Set CRASH_STRICT_MODE=false for flexible validation."
    ELSE "Check that all required fields are provided."

\* the catch block: the engine as the throw left it, and the failure response
\* (error is the fixed text of the message, detail the values it interpolates)
Failure(e, message, detail) ==
    [ e |-> e,
      pushed |-> <<>>,
      resp |-> [ returned |-> "failure",
                 isError  |-> TRUE,
                 error    |-> message,
                 detail   |-> detail,
                 status   |-> "failed",
                 hint     |-> Hint(e.config) ] ]

\* a session block that does not look at enableSessions
ResolveSessionAlways(e, step, t) ==
    IF step.session_id = "" THEN e
    ELSE
    LET swept == cleanupExpiredSessions(e, FALSE, t)
        fresh == Len(swept.hist) + 1
        opened ==
            IF step.session_id \in DOMAIN swept.sessions THEN swept
            ELSE [swept EXCEPT
                    !.hist = Append(@, createNewHistory),
                    !.sessions = MapSet(@, step.session_id,
                                        [history |-> fresh, lastAccessed |-> t]),
                    !.stepIndex = EmptyMap,
                    !.stepNumbers = {},
                    !.toolsUsedSet = <<>>]
    IN [opened EXCEPT !.sessions[step.session_id].lastAccessed = t,
                      !.history = opened.sessions[step.session_id].history]

\* the session block (server.ts:425-442)
ResolveSession(e, step, t) ==
    IF step.session_id = "" \/ ~e.config.enableSessions THEN e
    ELSE
    LET swept == cleanupExpiredSessions(e, FALSE, t)
        fresh == Len(swept.hist) + 1
        opened ==
            IF step.session_id \in DOMAIN swept.sessions THEN swept
            ELSE [swept EXCEPT
                    !.hist = Append(@, createNewHistory),
                    !.sessions = MapSet(@, step.session_id,
                                        [history |-> fresh, lastAccessed |-> t]),
                    !.stepIndex = EmptyMap,
                    !.stepNumbers = {},
                    !.toolsUsedSet = <<>>]
    IN [opened EXCEPT !.sessions[step.session_id].lastAccessed = t,
                      !.history = opened.sessions[step.session_id].history]

\* thoughtLower.includes(phrase.toLowerCase()) for some completion phrase
HasCompletionPhrase(thought) ==
    \E i \in DOMAIN thought.s : \E phrase \in COMPLETION_PHRASES :
        \/ ToLowerCase(thought.s[i]) = ToLowerCase(phrase)
        \/ ToLowerCase(thought.s[i]) = ToLowerCase(phrase) \o " "

\* a completion flag that follows the latest step
MarkCompletionLatest(e, step) ==
    [e EXCEPT !.hist[e.history].completed =
                 step.is_final_step \/ HasCompletionPhrase(step.thought)]

\* server.ts:453-462
MarkCompletion(e, step) ==
    IF step.is_final_step \/ HasCompletionPhrase(step.thought)
    THEN [e EXCEPT !.hist[e.history].completed = TRUE]
    ELSE e

\* server.ts:476-483
TrackTools(e, step) ==
    LET set == SetAddAll(e.toolsUsedSet, extractToolsUsed(step))
    IN [e EXCEPT !.toolsUsedSet = set, !.hist[e.history].tools_used = set]

\* an append that skips a step whose number the index already knows
AppendStepOnce(e, step) ==
    IF Num(step) \in e.stepNumbers THEN e
    ELSE [e EXCEPT !.hist[e.history].steps = Append(@, step),
                   !.stepIndex = MapSet(@, Num(step),
                                        [h |-> e.history, i |-> Len(Steps(e)) + 1]),
                   !.stepNumbers = @ \cup {Num(step)}]

\* server.ts:485-488
AppendStep(e, step) ==
    [e EXCEPT !.hist[e.history].steps = Append(@, step),
              !.stepIndex = MapSet(@, Num(step),
                                   [h |-> e.history, i |-> Len(Steps(e)) + 1]),
              !.stepNumbers = @ \cup {Num(step)}]

\* server.ts:509-540
Success(e, step) ==
    [ e |-> e,
      pushed |-> <<[h |-> e.history, step |-> step]>>,
      resp |-> [ returned     |-> "success",
                 isError      |-> FALSE,
                 step_number  |-> Num(step),
                 completed    |-> e.hist[e.history].completed,
                 total_steps  |-> Len(Steps(e)),
                 revised_step |-> step.revises_step,
                 branch       |-> IF step.branch_id # ""
                                  THEN [ id   |-> step.branch_id,
                                         name |-> step.branch_name,
                                         from |-> step.branch_from ]
                                  ELSE [ id |-> "", name |-> "", from |-> 0 ] ] ]

\* a RecordStep that pushes the step before the branching check fails
RecordStepPushFirst(e0, step, t) ==
    LET e1 == ResolveSession(e0, step, t)
        depValidation == validateDependencies(e1, step)
        e2 == MarkCompletion(e1, step)
        revisionResult == handleRevision(e2, step)
        branchResult == handleBranching(revisionResult.e, step, t)
        e3 == AppendStep(TrackTools(branchResult.e, branchResult.step),
                         branchResult.step)
    IN  IF depValidation.circular
        THEN Failure(e1, "Circular dependency detected for step", <<Num(step)>>)
        ELSE IF ~revisionResult.valid
        THEN Failure(e2, revisionResult.error, revisionResult.detail)
        ELSE IF ~branchResult.success
        THEN Failure(AppendStep(branchResult.e, step), branchResult.error,
                     branchResult.detail)
        ELSE Success(trimHistory(e3), branchResult.step)

\* server.ts:444-540, for a step that passed the input checks
RecordStep(e0, step, t) ==
    LET e1 == ResolveSession(e0, step, t)
        depValidation == validateDependencies(e1, step)
        e2 == MarkCompletion(e1, step)
        revisionResult == handleRevision(e2, step)
        branchResult == handleBranching(revisionResult.e, step, t)
        e3 == AppendStep(TrackTools(branchResult.e, branchResult.step),
                         branchResult.step)
    IN  IF depValidation.circular
        THEN Failure(e1, "Circular dependency detected for step", <<Num(step)>>)
        ELSE IF ~revisionResult.valid
        THEN Failure(e2, revisionResult.error, revisionResult.detail)
        ELSE IF ~branchResult.success
        THEN Failure(branchResult.e, branchResult.error, branchResult.detail)
        ELSE Success(trimHistory(e3), branchResult.step)

\* a processStep that applies the three policy checks in either mode
processStepPolicyAlways(e, input, t) ==
    IF input.kind = "null"
    THEN \* validateRequiredFields reads step.step_number: a TypeError, caught
         Failure(e, "TypeError: Cannot read properties of null", <<>>)
    ELSE
    LET missing == validateRequiredFields(input)
        cfg == e.config
    IN  IF missing # <<>>
        THEN Failure(e, "Missing or invalid required fields", missing)
        ELSE IF validateConfidence(input) # ""
        THEN Failure(e, validateConfidence(input), <<>>)
        ELSE IF ~validateThoughtPrefix(cfg, input.thought)
        THEN Failure(e, "Thought must start with one of the prefixes (strict mode)", <<>>)
        ELSE IF ~validateRationale(cfg, input.rationale)
        THEN Failure(e, "Rationale must start with \"To \" (strict mode)", <<>>)
        ELSE IF ~validatePurpose(cfg, input.purpose)
        THEN Failure(e, "Invalid purpose (strict mode)", <<>>)
        ELSE RecordStep(e, input, t)

\* processStep: [e, resp, pushed], where pushed lists the step the call pushed
\* (history.steps.push) and the history it was pushed into
processStep(e, input, t) ==
    IF input.kind = "null"
    THEN \* validateRequiredFields reads step.step_number: a TypeError, caught
         Failure(e, "TypeError: Cannot read properties of null", <<>>)
    ELSE
    LET missing == validateRequiredFields(input)
        cfg == e.config
    IN  IF missing # <<>>
        THEN Failure(e, "Missing or invalid required fields", missing)
        ELSE IF validateConfidence(input) # ""
        THEN Failure(e, validateConfidence(input), <<>>)
        ELSE IF cfg.strictMode /\ ~validateThoughtPrefix(cfg, input.thought)
        THEN Failure(e, "Thought must start with one of the prefixes (strict mode)", <<>>)
        ELSE IF cfg.strictMode /\ ~validateRationale(cfg, input.rationale)
        THEN Failure(e, "Rationale must start with \"To \" (strict mode)", <<>>)
        ELSE IF cfg.strictMode /\ ~validatePurpose(cfg, input.purpose)
        THEN Failure(e, "Invalid purpose (strict mode)", <<>>)
        ELSE RecordStep(e, input, t)

\* a clearHistory that keeps the set of known step numbers
clearHistoryKeepsNumbers(e) ==
    [e EXCEPT !.hist = Append(@, createNewHistory),
              !.history = Len(e.hist) + 1,
              !.branches = <<>>,
              !.stepIndex = EmptyMap,
              !.toolsUsedSet = <<>>,
              !.branchDepthCache = EmptyMap,
              !.stepsSinceCleanup = 0]

\* clearHistory
clearHistory(e) ==
    [e EXCEPT !.hist = Append(@, createNewHistory),
              !.history = Len(e.hist) + 1,
              !.branches = <<>>,
              !.stepIndex = EmptyMap,
              !.stepNumbers = {},
              !.toolsUsedSet = <<>>,
              !.branchDepthCache = EmptyMap,
              !.stepsSinceCleanup = 0]

----------------------------------------------------------------------------
(* The state machine *)

\* the CrashServer instance in the current state
Engine ==
    [ config            |-> config,
      history           |-> history,
      hist              |-> hist,
      branches          |-> branches,
      sessions          |-> sessions,
      stepIndex         |-> stepIndex,
      stepNumbers       |-> stepNumbers,
      toolsUsedSet      |-> toolsUsedSet,
      stepsSinceCleanup |-> stepsSinceCleanup,
      branchDepthCache  |-> branchDepthCache ]

\* the next state holds the instance e
Becomes(e) ==
    /\ config' = e.config
    /\ history' = e.history
    /\ hist' = e.hist
    /\ branches' = e.branches
    /\ sessions' = e.sessions
    /\ stepIndex' = e.stepIndex
    /\ stepNumbers' = e.stepNumbers
    /\ toolsUsedSet' = e.toolsUsedSet
    /\ stepsSinceCleanup' = e.stepsSinceCleanup
    /\ branchDepthCache' = e.branchDepthCache

NoResponse == [returned |-> "nothing", isError |-> FALSE]

\* no tool call in flight: pending holds the calls whose handler has not run
\* (with the engine as it was when the request arrived), results the values
\* of the promises processStep returned, sent the calls answered, and order
\* the calls in the order their handlers ran
NoTraffic ==
    [ pending |-> EmptyMap, results |-> EmptyMap, sent |-> {}, order |-> <<>> ]

\* the instance right after construction with configuration cfg
FreshEngine(cfg) ==
    [ config            |-> cfg,
      history           |-> 1,
      hist              |-> <<createNewHistory>>,
      branches          |-> <<>>,
      sessions          |-> EmptyMap,
      stepIndex         |-> EmptyMap,
      stepNumbers       |-> {},
      toolsUsedSet      |-> <<>>,
      stepsSinceCleanup |-> 0,
      branchDepthCache  |-> EmptyMap ]

InitWith(configs) ==
    /\ config \in configs
    /\ history = 1
    /\ hist = <<createNewHistory>>
    /\ branches = <<>>
    /\ sessions = EmptyMap
    /\ stepIndex = EmptyMap
    /\ stepNumbers = {}
    /\ toolsUsedSet = <<>>
    /\ stepsSinceCleanup = 0
    /\ branchDepthCache = EmptyMap
    /\ now = 0
    /\ resp = NoResponse
    /\ log = <<>>
    /\ calls = 0
    /\ transport = NoTraffic

\* a call of the tool: crashServer.processStep(request.params.arguments)
ProcessStep(input) ==
    /\ calls < MaxCalls
    /\ LET r == processStep(Engine, input, now)
       IN Becomes(r.e) /\ resp' = r.resp /\ log' = log \o r.pushed
    /\ calls' = calls + 1
    /\ UNCHANGED <<now, transport>>

ClearHistory ==
    /\ calls < MaxCalls
    /\ Becomes(clearHistory(Engine))
    /\ resp' = NoResponse
    /\ calls' = calls + 1
    /\ UNCHANGED <<now, log, transport>>

CleanupExpiredSessions(force) ==
    /\ calls < MaxCalls
    /\ Becomes(cleanupExpiredSessions(Engine, force, now))
    /\ resp' = NoResponse
    /\ calls' = calls + 1
    /\ UNCHANGED <<now, log, transport>>

\* time passes
Tick(ms) ==
    /\ calls < MaxCalls
    /\ now' = now + ms
    /\ resp' = NoResponse
    /\ calls' = calls + 1
    /\ UNCHANGED <<config, history, hist, branches, sessions, stepIndex,
                   stepNumbers, toolsUsedSet, stepsSinceCleanup,
                   branchDepthCache, log, transport>>

\* the transport reads a tools/call request; its handler is scheduled
Receive(input) ==
    /\ calls < MaxCalls
    /\ calls' = calls + 1
    /\ transport' = [transport EXCEPT
                        !.pending = MapSet(@, calls + 1,
                                           [input |-> input, seen |-> Engine])]
    /\ UNCHANGED <<config, history, hist, branches, sessions, stepIndex,
                   stepNumbers, toolsUsedSet, stepsSinceCleanup,
                   branchDepthCache, now, resp, log>>

\* an engine that works on the state it had when the request arrived
EngineAtArrival(c) == transport.pending[c].seen

\* the engine processStep reads and writes while the handler of call c runs:
\* this, as it is when the handler runs
EngineAtInvocation(c) == Engine

\* the handler of call c runs: processStep has no await, so its body runs
\* from the first read to the last write before it returns its promise
Invoke(c) ==
    /\ c \in DOMAIN transport.pending
    /\ LET input == transport.pending[c].input
           r == processStep(EngineAtInvocation(c), input, now)
       IN /\ Becomes(r.e)
          /\ log' = log \o r.pushed
          /\ transport' = [transport EXCEPT
                              !.pending = MapDelete(@, {c}),
                              !.results = MapSet(@, c, r.resp),
                              !.order = Append(@, [call |-> c, input |-> input])]
    /\ UNCHANGED <<now, resp, calls>>

\* the promise of call c has settled: the transport sends the response
Deliver(c) ==
    /\ c \in DOMAIN transport.results
    /\ c \notin transport.sent
    /\ resp' = transport.results[c]
    /\ transport' = [transport EXCEPT !.sent = @ \cup {c}]
    /\ UNCHANGED <<config, history, hist, branches, sessions, stepIndex,
                   stepNumbers, toolsUsedSet, stepsSinceCleanup,
                   branchDepthCache, now, log, calls>>

----------------------------------------------------------------------------
(* Inputs and configurations *)

StepNumbers == 1 .. MaxStepNumber

SessionIds == {"A", "B"}

\* a valid step numbered n, addressed to session sid ("" for none)
Plain(n, sid) ==
    [BaseStep EXCEPT !.step_number = Number(n), !.session_id = sid]

Final(n, sid) == [Plain(n, sid) EXCEPT !.is_final_step = TRUE]

Revising(n, r, sid) == [Plain(n, sid) EXCEPT !.revises_step = r]

Branching(n, f, id, sid) ==
    [Plain(n, sid) EXCEPT !.branch_from = f, !.branch_id = id]

Depending(n, deps, sid) == [Plain(n, sid) EXCEPT !.dependencies = deps]

\* a step that passes the strict-mode checks
Strict(step) ==
    [step EXCEPT !.thought = String(<<"OK, I ", "see">>),
                 !.rationale = String(<<"To ", "test">>)]

\* {}: an object with no field at all
EmptyObject ==
    [BaseStep EXCEPT !.step_number = Undefined, !.estimated_total = Undefined,
                     !.purpose = Undefined, !.context = Undefined,
                     !.thought = Undefined, !.outcome = Undefined,
                     !.next_action = Undefined, !.rationale = Undefined]

\* inputs the input checks reject
InvalidInputs ==
    { NullInput, PrimitiveInput, EmptyObject,
      [BaseStep EXCEPT !.context = String(<<" ">>)],
      [BaseStep EXCEPT !.step_number = Number(0)],
      [BaseStep EXCEPT !.confidence = Fraction(1)] }

\* createConfig({ system: { maxHistorySize: m }, features: { enableSessions: s } })
TestConfig(m, s) ==
    [DEFAULT_CONFIG EXCEPT !.maxHistorySize = m, !.enableSessions = s,
                           !.maxBranchDepth = 1, !.sessionTimeout = 1]

----------------------------------------------------------------------------
(* Spec: steps, sessions, trimming, failures *)

CoreConfigs ==
    { TestConfig(1, TRUE), TestConfig(2, TRUE),
      StrictConfig(TestConfig(2, FALSE)) }

CoreInputs ==
    {Plain(n, sid) : n \in StepNumbers, sid \in {"", "A"}}
    \cup {Strict(Plain(n, "")) : n \in StepNumbers}
    \cup { Plain(1, "B"), Final(1, "A"), Depending(1, {1}, "B"),
           [Final(1, "") EXCEPT !.revises_step = 1] }
    \cup InvalidInputs

Init == InitWith(CoreConfigs)

Next ==
    \/ \E input \in CoreInputs : ProcessStep(input)
    \/ ClearHistory

Spec == Init /\ [][Next]_vars

----------------------------------------------------------------------------
(* SpecRevision: revisions across sessions *)

RevisionConfigs ==
    {[TestConfig(2, TRUE) EXCEPT !.enableRevisions = r] : r \in BOOLEAN}

RevisionInputs ==
    {Plain(n, sid) : n \in StepNumbers, sid \in SessionIds}
    \cup {Revising(n, r, "A") : n \in StepNumbers, r \in {1, MaxStepNumber}}

InitRevision == InitWith(RevisionConfigs)

NextRevision ==
    \/ \E input \in RevisionInputs : ProcessStep(input)
    \/ ClearHistory

SpecRevision == InitRevision /\ [][NextRevision]_vars

----------------------------------------------------------------------------
(* SpecBranch: branching across sessions *)

BranchConfigs == {TestConfig(2, TRUE)}

BranchInputs ==
    {Plain(n, sid) : n \in StepNumbers, sid \in SessionIds}
    \cup {Branching(n, 1, id, "A") : n \in StepNumbers, id \in {"", "b1"}}

InitBranch == InitWith(BranchConfigs)

NextBranch ==
    \/ \E input \in BranchInputs : ProcessStep(input)
    \/ ClearHistory

SpecBranch == InitBranch /\ [][NextBranch]_vars

----------------------------------------------------------------------------
(* SpecChain: forks of forks *)

ChainConfigs ==
    {[DEFAULT_CONFIG EXCEPT !.enableSessions = TRUE, !.sessionTimeout = 1,
                            !.maxHistorySize = m, !.maxBranchDepth = k] :
        m \in {1, 2, DEFAULT_CONFIG.maxHistorySize}, k \in {1, 2}}

ChainInputs ==
    {Plain(n, sid) : n \in StepNumbers, sid \in SessionIds}
    \cup {Branching(n, n - 1, id, "A") : n \in StepNumbers \ {1}, id \in {"b1", "b2"}}

InitChain == InitWith(ChainConfigs)

NextChain ==
    \/ \E input \in ChainInputs : ProcessStep(input)
    \/ ClearHistory

SpecChain == InitChain /\ [][NextChain]_vars

----------------------------------------------------------------------------
(* SpecDeps: dependencies across sessions *)

DepsConfigs == {TestConfig(1, TRUE), TestConfig(2, TRUE)}

DepsInputs ==
    {Plain(n, sid) : n \in StepNumbers, sid \in SessionIds}
    \cup {Depending(n, {d}, "A") : n \in StepNumbers, d \in {1, MaxStepNumber}}

InitDeps == InitWith(DepsConfigs)

NextDeps ==
    \/ \E input \in DepsInputs : ProcessStep(input)
    \/ ClearHistory

SpecDeps == InitDeps /\ [][NextDeps]_vars

----------------------------------------------------------------------------
(* SpecSession: steps with and without a session id *)

SessionConfigs == {TestConfig(2, s) : s \in BOOLEAN}

SessionInputs ==
    {Plain(n, sid) : n \in StepNumbers, sid \in SessionIds \cup {""}}
    \cup { Final(1, "A"), Depending(1, {1}, "B"),
           [Plain(1, "B") EXCEPT !.thought = String(<<"So: ", "TASK COMPLETED">>)] }

InitSession == InitWith(SessionConfigs)

NextSession ==
    \/ \E input \in SessionInputs : ProcessStep(input)
    \/ ClearHistory

SpecSession == InitSession /\ [][NextSession]_vars

----------------------------------------------------------------------------
(* SpecStrict: the validation policy under every setting of its flags *)

StrictConfigs ==
    {[TestConfig(2, FALSE) EXCEPT !.strictMode = s,
                                  !.requireThoughtPrefix = t,
                                  !.requireRationalePrefix = r,
                                  !.allowCustomPurpose = c] :
        s \in BOOLEAN, t \in BOOLEAN, r \in BOOLEAN, c \in BOOLEAN}

\* steps that pass the field and confidence checks: three that follow the
\* policy, and four that break one rule of it each or two
PolicySteps ==
    {Strict(Plain(n, "")) : n \in StepNumbers}
    \cup { [Strict(Plain(1, "")) EXCEPT !.purpose = String(<<"ANALYSIS">>)],
           [Strict(Plain(1, "")) EXCEPT !.thought = String(<<"Invalid thought">>)],
           [Strict(Plain(1, "")) EXCEPT !.rationale = String(<<"Because">>)],
           [Strict(Plain(1, "")) EXCEPT !.purpose = String(<<"custom">>)],
           Plain(1, "") }

StrictInputs ==
    PolicySteps \cup {EmptyObject, [BaseStep EXCEPT !.confidence = Fraction(1)]}

InitStrict == InitWith(StrictConfigs)

NextStrict ==
    \/ \E input \in StrictInputs : ProcessStep(input)
    \/ ClearHistory

SpecStrict == InitStrict /\ [][NextStrict]_vars

----------------------------------------------------------------------------
(* SpecFields: valid steps and inputs the input checks reject *)

FieldsConfigs == {TestConfig(2, TRUE), StrictConfig(TestConfig(2, TRUE))}

FieldsInputs ==
    {Plain(n, "") : n \in StepNumbers} \cup InvalidInputs
    \cup { Plain(1, "A"), Strict(Plain(1, "")),
           [Plain(2, "") EXCEPT !.confidence = Number(1)] }

InitFields == InitWith(FieldsConfigs)

NextFields ==
    \/ \E input \in FieldsInputs : ProcessStep(input)
    \/ ClearHistory

SpecFields == InitFields /\ [][NextFields]_vars

----------------------------------------------------------------------------
(* SpecConcurrent: tool calls in flight at the same time *)

ConcurrentConfigs == {TestConfig(2, TRUE)}

ConcurrentInputs ==
    {Plain(1, "A"), Plain(2, "B"), Revising(2, 1, "")}

CallIds == 1 .. MaxCalls

InitConcurrent == InitWith(ConcurrentConfigs)

NextConcurrent ==
    \/ \E input \in ConcurrentInputs : Receive(input)
    \/ \E c \in CallIds : Invoke(c)
    \/ \E c \in CallIds : Deliver(c)

SpecConcurrent == InitConcurrent /\ [][NextConcurrent]_vars

----------------------------------------------------------------------------
(* SpecTools: steps that name the tools they used *)

ToolsConfigs == {TestConfig(2, TRUE)}

\* a step that lists `tools` as tools_used and names `tool` in a structured
\* next_action ("" for a plain-text next_action)
UsingTools(n, sid, tools, tool) ==
    [Plain(n, sid) EXCEPT
        !.tools_used = tools,
        !.next_action = IF tool = "" THEN @ ELSE Action(String(<<"run">>), tool)]

ToolsInputs ==
    {Plain(n, "A") : n \in StepNumbers}
    \cup UNION {{ UsingTools(1, sid, <<"grep">>, ""),
                  UsingTools(2, sid, <<"grep", "grep">>, "bash"),
                  UsingTools(3, sid, <<>>, "bash") } : sid \in SessionIds \cup {""}}

InitTools == InitWith(ToolsConfigs)

NextTools ==
    \/ \E input \in ToolsInputs : ProcessStep(input)
    \/ ClearHistory

SpecTools == InitTools /\ [][NextTools]_vars

----------------------------------------------------------------------------
(* SpecExpiry: sessions that expire *)

ExpiryConfigs == {TestConfig(2, s) : s \in BOOLEAN}

ExpiryInputs == {Plain(1, sid) : sid \in SessionIds}

\* the timeout exactly, and one millisecond more
ExpiryDelays(cfg) == {sessionTimeoutMs(cfg), sessionTimeoutMs(cfg) + 1}

InitExpiry == InitWith(ExpiryConfigs)

NextExpiry ==
    \/ \E input \in ExpiryInputs : ProcessStep(input)
    \/ \E force \in BOOLEAN : CleanupExpiredSessions(force)
    \/ \E ms \in ExpiryDelays(config) : Tick(ms)
    \/ ClearHistory

SpecExpiry == InitExpiry /\ [][NextExpiry]_vars

----------------------------------------------------------------------------
(* Well-formedness of the model's references (not a claim of the spec) *)

\* every step reference of stepIndex points at a stored step with that number
RefsValid ==
    \A k \in DOMAIN stepIndex :
        /\ stepIndex[k].h \in DOMAIN hist
        /\ stepIndex[k].i \in DOMAIN hist[stepIndex[k].h].steps
        /\ Num(hist[stepIndex[k].h].steps[stepIndex[k].i]) = k

----------------------------------------------------------------------------
(* Claims *)

\* the steps pushed into history h so far, in arrival order
PushedTo(h) ==
    LET mine == SelectSeq(log, LAMBDA p : p.h = h)
    IN [i \in DOMAIN mine |-> mine[i].step]

\* the steps of a list as they were pushed (revised_by is set afterwards)
AsPushed(steps) == [i \in DOMAIN steps |-> [steps[i] EXCEPT !.revised_by = 0]]

StepNumbersOf(steps) == [i \in DOMAIN steps |-> Num(steps[i])]

\* the histories the engine can still reach: the active one and the sessions'
LiveHistories == {history} \cup {sessions[sid].history : sid \in DOMAIN sessions}

\* C1: for maxHistorySize >= 1, after every processStep call the active
\* history and every session's history hold at most maxHistorySize steps.
C1_HistoryBounded ==
    config.maxHistorySize >= 1 =>
        \A h \in LiveHistories : Len(hist[h].steps) <= config.maxHistorySize

\* a call that trimmed a session's history while another session exists
C1_Witness ==
    /\ resp.returned = "success"
    /\ Cardinality(DOMAIN sessions) = 2
    /\ Len(PushedTo(history)) > config.maxHistorySize
    /\ Len(hist[history].steps) = config.maxHistorySize

\* C2: the steps a history retains are exactly the maxHistorySize most
\* recently appended steps of that history, in their arrival order.
C2_KeepsMostRecent ==
    config.maxHistorySize >= 1 =>
        \A h \in DOMAIN hist :
            LET pushed == PushedTo(h)
                kept == AsPushed(hist[h].steps)
                k == Min(Len(pushed), config.maxHistorySize)
            IN /\ Len(kept) = k
               /\ \A i \in 1 .. k : kept[i] = pushed[Len(pushed) - k + i]

\* maxHistorySize = 2 and steps 1, 2, 3 processed in order leave [2, 3]
C2_Witness ==
    /\ config.maxHistorySize = 2
    /\ StepNumbersOf(PushedTo(history)) = <<1, 2, 3>>
    /\ StepNumbersOf(hist[history].steps) = <<2, 3>>

\* no call has addressed a session (or sessions are disabled)
SessionsUnused ==
    \/ ~config.enableSessions
    \/ sessions = EmptyMap /\ \A i \in DOMAIN log : log[i].step.session_id = ""

\* C3: with sessions unused, steps.length is min(number of successful calls
\* since construction or the last clearHistory, maxHistorySize); a successful
\* call leaves its step at the end of the list and reports that length.
C3_LengthIsSuccessCount ==
    SessionsUnused =>
        /\ Len(hist[history].steps)
             = Min(Len(PushedTo(history)), config.maxHistorySize)
        /\ \A i \in DOMAIN log : log[i].h <= history
        /\ resp.returned = "success" =>
             /\ log # <<>> /\ log[Len(log)].h = history
             /\ hist[history].steps # <<>>
             /\ hist[history].steps[Len(hist[history].steps)] = log[Len(log)].step
             /\ resp.total_steps = Len(hist[history].steps)

\* after a clearHistory, more successful calls than maxHistorySize
C3_Witness ==
    /\ SessionsUnused
    /\ history > 1
    /\ resp.returned = "success"
    /\ Len(PushedTo(history)) > config.maxHistorySize
    /\ resp.total_steps = config.maxHistorySize

EngineVars ==
    <<history, hist, branches, sessions, stepIndex, stepNumbers, toolsUsedSet,
      branchDepthCache>>

\* C4: a processStep call that returns a failure response leaves the engine
\* state (histories, branch registry, session map, active-history pointer,
\* derived indices) exactly as it was before the call.
C4_FailureChangesNothing ==
    [][resp'.returned = "failure" => UNCHANGED EngineVars]_vars

StrictHint ==
    "Strict mode is enabled. Set CRASH_STRICT_MODE=false for flexible validation."

\* a response as the failure contract of processStep describes it
WellFormedResponse(r) ==
    /\ r.returned \in {"success", "failure"}
    /\ r.returned = "success" => ~r.isError
    /\ r.returned = "failure" =>
         /\ r.isError
         /\ r.error # ""
         /\ r.status = "failed"
         /\ r.hint # ""
         /\ (r.hint = StrictHint) <=> config.strictMode

\* C5: processStep returns a response for every input (null, a primitive, an
\* object without fields, any step): a failure has isError = true, an error
\* message, status "failed" and a hint, the strict-mode hint exactly when
\* strictMode is true.
C5_AlwaysResponds ==
    /\ resp.returned # "nothing" => WellFormedResponse(resp)
    /\ \A input \in CoreInputs :
           WellFormedResponse(processStep(Engine, input, now).resp)

\* processStep(null) has returned a failure under strict mode
C5_Witness ==
    /\ config.strictMode
    /\ resp.returned = "failure"
    /\ resp.error = "TypeError: Cannot read properties of null"
    /\ resp.hint = StrictHint

\* otherwise valid steps that carry revises_step, with and without session
RevisionProbes ==
    {[Revising(n, r, sid) EXCEPT !.is_final_step = f] :
        n \in StepNumbers, r \in 1 .. MaxStepNumber + 1,
        sid \in SessionIds \cup {""}, f \in BOOLEAN}

\* the steps of history h before a call, h possibly created by the call
StepsBefore(h) == IF h \in DOMAIN hist THEN hist[h].steps ELSE <<>>

RevisionError == "Cannot revise step: can only revise earlier steps"

\* C6: with revisions enabled, a step with revises_step = r >= 1 and
\* r >= step_number fails with the "can only revise earlier steps" error,
\* whether or not a step numbered r exists, and is not appended.
C6_FutureRevisionRejected ==
    config.enableRevisions =>
        \A input \in RevisionProbes :
            input.revises_step >= Num(input) =>
                LET r == processStep(Engine, input, now)
                IN /\ r.resp.returned = "failure"
                   /\ r.resp.error = RevisionError
                   /\ r.resp.detail = <<input.revises_step, Num(input)>>
                   /\ r.pushed = <<>>
                   /\ \A h \in DOMAIN r.e.hist : r.e.hist[h].steps = StepsBefore(h)

\* step 1 tried to revise step 1 while a step numbered 1 is stored
C6_Witness ==
    /\ config.enableRevisions
    /\ resp.returned = "failure"
    /\ resp.error = RevisionError
    /\ resp.detail = <<1, 1>>
    /\ \E i \in DOMAIN hist[history].steps : Num(hist[history].steps[i]) = 1

\* C7: with revisions enabled, after a successful step s with
\* revises_step = r < s, a step numbered r that is present in the active
\* history has revised_by = s and is otherwise as it was pushed.
C7_TargetMarked ==
    (config.enableRevisions /\ resp.returned = "success" /\ resp.revised_step >= 1) =>
        LET steps == hist[history].steps
            targets == {i \in DOMAIN steps : Num(steps[i]) = resp.revised_step}
        IN targets # {} =>
             \E i \in targets :
                /\ steps[i].revised_by = resp.step_number
                /\ [steps[i] EXCEPT !.revised_by = 0] \in Range(PushedTo(history))

\* the stored steps a call leaves as they were: every history but the one
\* the call recorded into is unchanged, and that one keeps its newest steps
StoredStepsUntouched ==
    /\ \A h \in DOMAIN hist : h # history' => hist'[h].steps = hist[h].steps
    /\ LET old == StepsBefore(history')
           new == hist'[history'].steps
       IN /\ new # <<>>
          /\ Len(new) - 1 <= Len(old)
          /\ SubSeq(new, 1, Len(new) - 1)
               = SubSeq(old, Len(old) - Len(new) + 2, Len(old))

\* C8: with revisions enabled, a step with revises_step = r < step_number
\* where no step numbered r is in the history it is recorded into succeeds,
\* is appended, and changes no stored step's revised_by.
C8_MissingTargetHarmless ==
    [][\A input \in RevisionInputs :
         ( /\ config.enableRevisions
           /\ input.revises_step >= 1
           /\ input.revises_step < Num(input)
           /\ ProcessStep(input)
           /\ \A i \in DOMAIN StepsBefore(history') :
                 Num(StepsBefore(history')[i]) # input.revises_step )
         => ( /\ resp'.returned = "success"
              /\ Len(log') = Len(log) + 1
              /\ StoredStepsUntouched )]_vars

\* C9: with revisions disabled, a step carrying revises_step (also one
\* >= its step_number) has the outcome of the same step without it, and no
\* stored step's revised_by and no revisions_count is set.
C9_RevisionsDisabledInert ==
    ~config.enableRevisions =>
        \A input \in RevisionProbes :
            LET with == processStep(Engine, input, now)
                without == processStep(Engine, [input EXCEPT !.revises_step = 0], now)
            IN /\ with.resp.returned = without.resp.returned
               /\ with.resp.returned = "failure" => with.resp = without.resp
               /\ \A h \in DOMAIN with.e.hist :
                    /\ with.e.hist[h].revisions_count = 0
                    /\ \A i \in DOMAIN with.e.hist[h].steps :
                          with.e.hist[h].steps[i].revised_by = 0

\* revisions disabled: step 1 carrying a revises_step beyond its own number
\* was accepted while a step of that number is stored
C9_Witness ==
    /\ ~config.enableRevisions
    /\ resp.returned = "success"
    /\ resp.step_number = 1
    /\ resp.revised_step > 1
    /\ resp.revised_step \in stepNumbers

BranchMissingError == "Cannot branch from step: step does not exist"

\* C10: with branching enabled, a step with branch_from = f is rejected with
\* the "does not exist" error if and only if no step numbered f is in the
\* history the step is recorded into (the addressed session's history).
C10_BranchSourceChecked ==
    [][\A input \in BranchInputs :
         ( /\ config.enableBranching
           /\ input.branch_from >= 1
           /\ ProcessStep(input) )
         => ( (resp'.returned = "failure" /\ resp'.error = BranchMissingError)
              <=> \A i \in DOMAIN StepsBefore(history') :
                     Num(StepsBefore(history')[i]) # input.branch_from )]_vars

\* C11: every branch of the registry has 1 <= depth <= maxBranchDepth.
C11_DepthBounded ==
    \A i \in DOMAIN branches :
        /\ branches[i].depth >= 1
        /\ branches[i].depth <= config.maxBranchDepth

\* a fork of a fork is registered at the deepest level allowed
C11_Witness ==
    /\ config.maxBranchDepth = 2
    /\ \E i \in DOMAIN branches : branches[i].depth = 2 /\ branches[i].from_step = 2

DepthError == "Branch depth exceeds maximum"

\* the step numbers the branches of the registry hold
BranchedNumbers == UNION {Range(branches[i].steps) : i \in DOMAIN branches}

\* the session ids under which a next call reaches the active history
ActiveSessionIds ==
    {""} \cup {sid \in DOMAIN sessions : sessions[sid].history = history}

\* the i-th fork of a chain that starts at main-line step f
ChainFork(f, sid, i) ==
    Branching(f + i, f + i - 1, "chain-" \o ToString(i), sid)

RECURSIVE ChainEngine(_, _, _)
\* the engine after the first i forks of the chain
ChainEngine(f, sid, i) ==
    IF i = 0 THEN Engine
    ELSE processStep(ChainEngine(f, sid, i - 1), ChainFork(f, sid, i), now).e

\* the outcome of the i-th fork
ChainResult(f, sid, i) ==
    processStep(ChainEngine(f, sid, i - 1), ChainFork(f, sid, i), now)

\* the last call recorded the main-line step f, and the numbers a chain of
\* forks from f would use are in no branch
ChainStart(f) ==
    /\ resp.returned = "success"
    /\ resp.step_number = f
    /\ resp.branch.id = ""
    /\ \A i \in 0 .. config.maxBranchDepth + 1 : f + i \notin BranchedNumbers

\* forks 1..K of the chain from f register branches of depth 1..K, fork K+1
\* fails on depth and registers nothing
ChainBounded(f, sid) ==
    LET K == config.maxBranchDepth
        last == ChainResult(f, sid, K + 1)
    IN /\ \A i \in 1 .. K :
            LET r == ChainResult(f, sid, i)
            IN /\ r.resp.returned = "success"
               /\ Len(r.e.branches) = Len(branches) + i
               /\ r.e.branches[Len(r.e.branches)].id = "chain-" \o ToString(i)
               /\ r.e.branches[Len(r.e.branches)].depth = i
       /\ last.resp.returned = "failure"
       /\ last.resp.error = DepthError
       /\ last.resp.detail = <<K + 1, K>>
       /\ last.pushed = <<>>
       /\ last.e.branches = ChainEngine(f, sid, K).branches
       /\ Len(last.e.branches) = Len(branches) + K

CircularError == "Circular dependency detected for step"

\* steps with one or two dependencies, some of them not below the step number
DependencyProbes ==
    {Depending(n, deps, sid) :
        n \in StepNumbers,
        deps \in {{a, b} : a \in 1 .. MaxStepNumber + 1, b \in {1, MaxStepNumber + 1}},
        sid \in {"", "B"}}

\* C13: a step whose dependencies hold its own step_number or a larger
\* number fails with the circular-dependency error and is not appended,
\* whether or not a step of that number is stored.
C13_CircularRejected ==
    \A input \in DependencyProbes :
        (\E d \in input.dependencies : d >= Num(input)) =>
            LET r == processStep(Engine, input, now)
            IN /\ r.resp.returned = "failure"
               /\ r.resp.error = CircularError
               /\ r.resp.detail = <<Num(input)>>
               /\ r.pushed = <<>>
               /\ \A h \in DOMAIN r.e.hist : r.e.hist[h].steps = StepsBefore(h)

\* step 1 depending on step 3 was rejected while a step numbered 3 is stored
C13_Witness ==
    /\ resp.returned = "failure"
    /\ resp.error = CircularError
    /\ resp.detail = <<1>>
    /\ \E i \in DOMAIN hist[history].steps : Num(hist[history].steps[i]) > 1

\* C14: a step whose dependencies are all below its step_number succeeds and
\* is appended, and validateDependencies reports as missing exactly the
\* dependencies that are no step number of the history it is recorded into.
C14_MissingDependenciesExact ==
    [][\A input \in DepsInputs :
         ( /\ input.dependencies # {}
           /\ \A d \in input.dependencies : d < Num(input)
           /\ ProcessStep(input) )
         => ( /\ resp'.returned = "success"
              /\ Len(log') = Len(log) + 1
              /\ validateDependencies(ResolveSession(Engine, input, now), input).missing
                   = {d \in input.dependencies :
                        \A i \in DOMAIN StepsBefore(history') :
                            Num(StepsBefore(history')[i]) # d} )]_vars

\* the histories the session map holds
SessionHistories == {sessions[sid].history : sid \in DOMAIN sessions}

\* C15: with sessions disabled, whatever session_id the steps carry, the
\* session map stays empty, no call switches the history, and every
\* successful step is appended to that one history.
C15_SessionsDisabledIgnored ==
    [][~config.enableSessions =>
         /\ sessions = EmptyMap
         /\ sessions' = EmptyMap
         /\ resp'.returned # "nothing" => history' = history
         /\ resp'.returned = "success" =>
               /\ Len(log') = Len(log) + 1
               /\ log'[Len(log')].h = history
               /\ hist'[history].steps # <<>>
               /\ hist'[history].steps[Len(hist'[history].steps)]
                    = log'[Len(log')].step]_vars

\* sessions disabled: a step naming session "A" follows one naming "B",
\* both in the same history
C15_Witness ==
    /\ ~config.enableSessions
    /\ sessions = EmptyMap
    /\ Len(hist[history].steps) = 2
    /\ hist[history].steps[1].session_id = "B"
    /\ hist[history].steps[2].session_id = "A"
    /\ resp.returned = "success"

\* C16: with sessions enabled, a call that names session A changes no
\* history but A's: the histories of the other sessions and the default
\* history keep their steps (revised_by included), completed flag and metadata.
C16_SessionsIsolated ==
    [][\A input \in RevisionInputs :
         ( /\ config.enableSessions
           /\ input.session_id # ""
           /\ ProcessStep(input) )
         => /\ input.session_id \in DOMAIN sessions'
            /\ \A h \in DOMAIN hist :
                  h # sessions'[input.session_id].history => hist'[h] = hist[h]]_vars

\* C17: with sessions enabled, a successful step that carries no session_id
\* is recorded in a history that belongs to no session.
C17_NoSessionUsesDefault ==
    [][\A input \in SessionInputs :
         ( /\ config.enableSessions
           /\ input.session_id = ""
           /\ ProcessStep(input)
           /\ resp'.returned = "success" )
         => /\ history' \notin SessionHistories
            /\ log'[Len(log')].h \notin SessionHistories]_vars

\* the messages of the three strict-mode rejections
StrictErrors ==
    { "Thought must start with one of the prefixes (strict mode)",
      "Rationale must start with \"To \" (strict mode)",
      "Invalid purpose (strict mode)" }

\* the step breaks the policy: thought without a fixed prefix, rationale not
\* starting with "To ", or purpose outside the whitelist in any letter case
BreaksPolicy(step) ==
    \/ \A prefix \in VALID_PREFIXES : ~StartsWith(step.thought.s, prefix)
    \/ ~StartsWith(step.rationale.s, "To ")
    \/ \A i \in DOMAIN step.purpose.s : ToLowerCase(step.purpose.s[i]) \notin VALID_PURPOSES

\* C18: with strictMode true, whatever the three sub-flags, a step that
\* breaks the policy is rejected with a strict-mode error and not appended.
C18_StrictModeRejects ==
    [][\A input \in PolicySteps :
         ( /\ config.strictMode
           /\ BreaksPolicy(input)
           /\ ProcessStep(input) )
         => ( /\ resp'.returned = "failure"
              /\ resp'.error \in StrictErrors
              /\ log' = log
              /\ hist' = hist )]_vars

\* C19: with strictMode false, whatever the three sub-flags, no step is
\* rejected for its thought, rationale or purpose: a step that passes the
\* field and confidence checks is appended, and a rejected step is rejected
\* by one of those two checks.
C19_FlexibleNeverRejectsPolicy ==
    [][\A input \in StrictInputs :
         ( /\ ~config.strictMode
           /\ ProcessStep(input) )
         => ( /\ input \in PolicySteps =>
                    /\ resp'.returned = "success"
                    /\ log' = Append(log, [h |-> history', step |-> input])
              /\ input \notin PolicySteps =>
                    /\ resp'.returned = "failure"
                    /\ resp'.error \notin StrictErrors
                    /\ resp'.error \in { "Missing or invalid required fields",
                                         "Confidence out of bounds [0, 1]" } )]_vars

\* flexible mode with all three sub-flags at their strict values: a step
\* with a custom purpose and free thought and rationale was appended
C19_Witness ==
    /\ ~config.strictMode
    /\ config.requireThoughtPrefix
    /\ config.requireRationalePrefix
    /\ ~config.allowCustomPurpose
    /\ resp.returned = "success"
    /\ Len(log) >= 2
    /\ log[Len(log)].step = Plain(1, "")
    /\ log[Len(log) - 1].step.purpose = String(<<"custom">>)

\* inputs for the field check: every required field with every kind of bad
\* value, one at a time, and some with several bad fields
FieldProbes ==
    {[BaseStep EXCEPT ![f] = v] :
        f \in {"step_number", "estimated_total"},
        v \in {Number(2), Number(0), Fraction(1), NaN, Undefined, String(<<"1">>)}}
    \cup {[BaseStep EXCEPT ![f] = v] :
        f \in {"purpose", "context", "thought", "outcome", "rationale"},
        v \in {String(<<" ", "x", " ">>), String(<<>>), String(<<" ", " ">>),
               Undefined, Number(1)}}
    \cup {[BaseStep EXCEPT !.next_action = v] :
        v \in {String(<<" ">>), Undefined, Number(1),
               Action(String(<<"run">>), ""), Action(String(<<" ">>), "tool"),
               Action(Undefined, "tool")}}
    \cup { EmptyObject, PrimitiveInput,
           [BaseStep EXCEPT !.step_number = Number(0), !.context = String(<<" ">>)],
           [BaseStep EXCEPT !.thought = Undefined,
                            !.next_action = Action(String(<<>>), "")],
           [BaseStep EXCEPT !.estimated_total = NaN, !.rationale = Number(1),
                            !.next_action = Undefined] }

\* not an integer >= 1
NotIntegerFromOne(v) == v.t # "number" \/ v.nan \/ v.frac \/ v.n < 1

\* not a string with non-whitespace content
Blank(v) == v.t # "string" \/ \A i \in DOMAIN v.s : v.s[i] = " "

\* the names the error message gives to the offending fields of an input
Offending(input) ==
    LET na == Field(input, "next_action")
    IN {"step_number (must be positive integer >= 1)" : x \in
            {y \in {1} : NotIntegerFromOne(Field(input, "step_number"))}}
       \cup {"estimated_total (must be positive integer >= 1)" : x \in
            {y \in {1} : NotIntegerFromOne(Field(input, "estimated_total"))}}
       \cup {f \in {"purpose", "context", "thought", "outcome", "rationale"} :
                Blank(Field(input, f))}
       \cup {"next_action" : x \in {y \in {1} : na.t # "object" /\ Blank(na)}}
       \cup {"next_action.action" : x \in {y \in {1} : na.t = "object" /\ Blank(na.action)}}

FieldError == "Missing or invalid required fields"

\* C20: the field check rejects an input exactly when step_number or
\* estimated_total is no integer >= 1, a text field is no string with
\* non-whitespace content, or next_action is neither a non-blank string nor
\* an object with a non-blank action; the error names every offending field,
\* and the rejection leaves the engine as it was, whatever its state.
C20_FieldValidation ==
    \A input \in FieldProbes :
        LET r == processStep(Engine, input, now)
        IN /\ (r.resp.returned = "failure" /\ r.resp.error = FieldError)
                <=> Offending(input) # {}
           /\ Offending(input) # {} =>
                /\ Range(r.resp.detail) = Offending(input)
                /\ Len(r.resp.detail) = Cardinality(Offending(input))
                /\ r.e = Engine
                /\ r.pushed = <<>>

\* an empty object was rejected, all eight fields named, after a step was stored
C20_Witness ==
    /\ resp.returned = "failure"
    /\ resp.error = FieldError
    /\ Len(resp.detail) = 8
    /\ hist[history].steps # <<>>

\* steps with a confidence: -1, -0.5, 0, 0.5, 1, 1.5, 2, NaN, a string and an
\* object, without and with a session, a thought that strict mode rejects
ConfidenceProbes ==
    {[Plain(1, sid) EXCEPT !.confidence = c] :
        sid \in {"", "B"},
        c \in { Number(0 - 1), Fraction(0 - 1), Number(0), Fraction(0), Number(1),
                Fraction(1), Number(2), NaN, String(<<"0.5">>),
                Action(Undefined, "") }}

\* a non-NaN number within [0, 1]; Fraction(k) lies strictly between k and k + 1
WithinUnitInterval(c) ==
    /\ c.t = "number"
    /\ ~c.nan
    /\ c.n >= 0
    /\ IF c.frac THEN c.n + 1 <= 1 ELSE c.n <= 1

ConfidenceErrors ==
    {"Confidence must be a number", "Confidence out of bounds [0, 1]"}

\* C21: a step with valid required fields and a confidence passes the
\* confidence check exactly when the confidence is a non-NaN number in
\* [0, 1], bounds included; otherwise it fails with a type or bounds error,
\* not the field error and not a strict-mode error, and the engine is unchanged.
C21_ConfidenceChecked ==
    \A input \in ConfidenceProbes :
        LET r == processStep(Engine, input, now)
        IN IF WithinUnitInterval(input.confidence)
           THEN r.resp.returned = "failure" => r.resp.error \notin ConfidenceErrors
           ELSE /\ r.resp.returned = "failure"
                /\ r.resp.error \in ConfidenceErrors
                /\ r.resp.error # FieldError
                /\ r.resp.error \notin StrictErrors
                /\ r.resp.error = "Confidence must be a number"
                      <=> (input.confidence.t # "number" \/ input.confidence.nan)
                /\ r.e = Engine
                /\ r.pushed = <<>>

\* a step with confidence exactly 1 was accepted
C21_Witness ==
    /\ resp.returned = "success"
    /\ log # <<>>
    /\ log[Len(log)].step.confidence = Number(1)
    /\ hist[history].steps[Len(hist[history].steps)].confidence = Number(1)

\* C22: a history that is completed stays completed through every later
\* call, and every later successful response for it reports completed; a
\* successful step that is final or whose thought holds a completion phrase
\* in any letter case completes the history it is recorded into.
C22_CompletionMonotonic ==
    [][/\ \A h \in DOMAIN hist :
            hist[h].completed =>
               /\ h \in DOMAIN hist'
               /\ hist'[h].completed
               /\ (resp'.returned = "success" /\ history' = h) => resp'.completed
       /\ \A input \in SessionInputs :
            ( /\ ProcessStep(input)
              /\ resp'.returned = "success"
              /\ input.is_final_step \/ input.thought = String(<<"So: ", "TASK COMPLETED">>) )
            => hist'[history'].completed /\ resp'.completed
       /\ (resp'.returned = "success" /\ ~hist'[history'].completed) => ~resp'.completed
      ]_vars

\* a step that is not final and has no completion phrase was recorded into
\* a completed history, and the response reports completed
C22_Witness ==
    /\ resp.returned = "success"
    /\ resp.completed
    /\ hist[history].completed
    /\ ~log[Len(log)].step.is_final_step
    /\ ~HasCompletionPhrase(log[Len(log)].step.thought)
    /\ log[Len(log)].h = history

RECURSIVE Replay(_, _, _)
\* the outcome of the k-th of the calls `order`, made one after the other on
\* a fresh engine
Replay(cfg, order, k) ==
    processStep(IF k = 1 THEN FreshEngine(cfg) ELSE Replay(cfg, order, k - 1).e,
                order[k].input, now)

Cleared(e) ==
    /\ e.hist[e.history].steps = <<>>
    /\ ~e.hist[e.history].completed
    /\ e.hist[e.history] = createNewHistory
    /\ e.branches = <<>>
    /\ e.stepNumbers = {}
    /\ e.stepIndex = EmptyMap
    /\ e.toolsUsedSet = <<>>
    /\ e.branchDepthCache = EmptyMap

\* steps of every kind for the call after a clear
ClearProbes ==
    UNION {{ Plain(1, sid), Final(2, sid), Revising(2, 1, sid),
             Depending(2, {1}, sid), Branching(2, 1, "b1", sid),
             Branching(3, 2, "", sid) } : sid \in SessionIds \cup {""}}

\* two calls with the same response that leave the same active history,
\* branch registry and indices
SameOutcome(r1, r2) ==
    /\ r1.resp = r2.resp
    /\ r1.e.hist[r1.e.history] = r2.e.hist[r2.e.history]
    /\ r1.e.branches = r2.e.branches
    /\ r1.e.stepNumbers = r2.e.stepNumbers
    /\ DOMAIN r1.e.stepIndex = DOMAIN r2.e.stepIndex
    /\ r1.e.toolsUsedSet = r2.e.toolsUsedSet
    /\ r1.e.branchDepthCache = r2.e.branchDepthCache

\* the next call after a clear, for the steps in `probes`, has the outcome it
\* has on a freshly constructed engine
ClearedLikeFresh(probes) ==
    ClearHistory =>
        /\ Cleared(Engine')
        /\ \A input \in probes :
              /\ SameOutcome(processStep(Engine', input, now),
                             processStep(FreshEngine(config), input, now))
              /\ input.branch_from # 0 =>
                    processStep(Engine', input, now).resp.error = BranchMissingError

FailureProbes ==
    ClearProbes \cup InvalidInputs
    \cup UNION {{ Depending(1, {1}, sid), Revising(1, 1, sid),
                  [Revising(3, 1, sid) EXCEPT !.branch_from = 3, !.branch_id = "b9"],
                  [Revising(3, 2, sid) EXCEPT !.branch_from = 2, !.branch_id = "b9"] } :
                sid \in SessionIds \cup {""}}

\* C25: a call that returns a failure adds, removes and reorders no step of
\* any history: every history that existed keeps its list of steps (a
\* step's revised_by aside), and a history the call created holds none.
C25_FailureKeepsSteps ==
    \A input \in FailureProbes :
        LET r == processStep(Engine, input, now)
        IN r.resp.returned = "failure" =>
              /\ r.pushed = <<>>
              /\ \A h \in DOMAIN r.e.hist :
                    AsPushed(r.e.hist[h].steps) = AsPushed(StepsBefore(h))

\* a fork was rejected for its depth while steps are stored
C25_Witness ==
    /\ resp.returned = "failure"
    /\ resp.error = DepthError
    /\ Len(hist[history].steps) >= 2
    /\ log # <<>>

\* C26: after every successful call the indices describe the active
\* history: stepNumbers is the set of its step numbers, and stepIndex maps
\* each of them to a step of that number stored in the active history.
C26_IndicesDescribeActive ==
    resp.returned = "success" =>
        LET steps == hist[history].steps
        IN /\ stepNumbers = {Num(steps[i]) : i \in DOMAIN steps}
           /\ DOMAIN stepIndex = stepNumbers
           /\ \A n \in DOMAIN stepIndex :
                 /\ stepIndex[n].h = history
                 /\ stepIndex[n].i \in DOMAIN steps
                 /\ Num(steps[stepIndex[n].i]) = n

\* C27: after every processStep call, every branch of the registry is
\* forked from a step number that a step of the active history has.
C27_BranchSourcesPresent ==
    resp.returned # "nothing" =>
        \A b \in DOMAIN branches :
            \E i \in DOMAIN hist[history].steps :
                Num(hist[history].steps[i]) = branches[b].from_step

\* a successful step that forks into a branch id of the registry leaves the
\* registry as it was but for that branch's step list, which gains the step,
\* and leaves every branches_created counter as it was
ReusesBranch(input) ==
    /\ Len(branches') = Len(branches)
    /\ \A i \in DOMAIN branches :
          branches'[i] =
             IF branches[i].id = input.branch_id
             THEN [branches[i] EXCEPT !.steps = Append(@, Num(input))]
             ELSE branches[i]
    /\ \A h \in DOMAIN hist : hist'[h].branches_created = hist[h].branches_created
    /\ resp'.branch.id = input.branch_id

\* an accepted fork into an existing branch id
ForksIntoExisting(input) ==
    /\ config.enableBranching
    /\ input.branch_from # 0
    /\ input.branch_id \in BranchIds(Engine)
    /\ ProcessStep(input)
    /\ resp'.returned = "success"

\* C28 as stated: a step with branch_from and a branch_id that is in the
\* registry creates no branch, leaves branches_created and the branch's
\* from_step, name, depth and status alone, and joins the branch's steps.
C28_BranchCreatedOnce ==
    [][\A input \in ChainInputs :
          ForksIntoExisting(input) => ReusesBranch(input)]_vars

\* C28, amended: the same, for an accepted step whose call trims nothing.
C28_BranchCreatedOnceUntrimmed ==
    [][\A input \in ChainInputs :
          ( /\ ForksIntoExisting(input)
            /\ Len(StepsBefore(history')) < config.maxHistorySize )
          => ReusesBranch(input)]_vars

\* a second step joined branch "b1", forked from another step than the first
C28_Witness ==
    /\ resp.returned = "success"
    /\ resp.branch.id = "b1"
    /\ Len(branches) = 1
    /\ branches[1].id = "b1"
    /\ Len(branches[1].steps) = 2
    /\ branches[1].from_step # resp.branch.from
    /\ hist[history].branches_created = 1

\* the revisions counter of history h before a call, h possibly created by it
RevisionsBefore(h) == IF h \in DOMAIN hist THEN hist[h].revisions_count ELSE 0

\* C29: the revisions counter counts the marked targets: an accepted
\* revising step whose target is not in the history it is recorded into
\* leaves that history's revisions_count as it was, one whose target is
\* there adds one.
C29_RevisionsCounted ==
    [][\A input \in RevisionInputs :
         ( /\ config.enableRevisions
           /\ input.revises_step >= 1
           /\ ProcessStep(input)
           /\ resp'.returned = "success" )
         => hist'[history'].revisions_count =
               IF \E i \in DOMAIN StepsBefore(history') :
                     Num(StepsBefore(history')[i]) = input.revises_step
               THEN RevisionsBefore(history') + 1
               ELSE RevisionsBefore(history')]_vars

\* the tools a step names: its tools_used and its structured next_action.tool
ToolsOf(step) ==
    Range(step.tools_used)
    \cup (IF step.next_action.t = "object" /\ step.next_action.tool # ""
          THEN {step.next_action.tool} ELSE {})

\* C30: after every successful call the active history's tools_used has no
\* duplicates and holds exactly the tools of the steps accepted into that
\* history since it was created.
C30_ToolsOfActiveHistory ==
    resp.returned = "success" =>
        LET tools == hist[history].tools_used
            accepted == PushedTo(history)
        IN /\ \A i, j \in DOMAIN tools : tools[i] = tools[j] => i = j
           /\ Range(tools) = UNION {ToolsOf(accepted[i]) : i \in DOMAIN accepted}

\* C31: after every processStep call the branch ids listed in the active
\* history's branches equal the ids of the branch registry.
C31_HistoryMirrorsRegistry ==
    resp.returned # "nothing" =>
        {hist[history].branches[i].id : i \in DOMAIN hist[history].branches}
            = BranchIds(Engine)

\* C32: in every reachable state no two steps of the same history's steps
\* list have the same step_number.
C32_StepNumbersUnique ==
    \A h \in DOMAIN hist :
        \A i, j \in DOMAIN hist[h].steps :
            Num(hist[h].steps[i]) = Num(hist[h].steps[j]) => i = j

\* the branches a successful processStep(e, input, t) registers in
\* handleBranching (before the trim at the end of the call)
Registered(e, input, t) ==
    LET e1 == ResolveSession(e, input, t)
        e2 == MarkCompletion(e1, input)
        before == handleRevision(e2, input).e
        after == handleBranching(before, input, t).e
    IN SelectSeq(after.branches, LAMBDA b : b.id \notin BranchIds(before))

\* the names given to the branches a successful call registers for a step
\* that supplies no branch_name
AutoNames(e, input, t) ==
    IF input.branch_name # "" \/ processStep(e, input, t).resp.returned # "success"
    THEN {}
    ELSE {Registered(e, input, t)[i].name : i \in DOMAIN Registered(e, input, t)}

\* C33: two branches created without a caller-supplied branch_name, with no
\* clearHistory between them, never receive the same "Alternative N" name
\* (stated for two calls in a row).
C33_AutoNamesNotReused ==
    [][\A first, second \in ChainInputs :
          ProcessStep(first) =>
              AutoNames(Engine, first, now)
                  \cap AutoNames(Engine', second, now') = {}]_vars

\* C34: every accepted step with branch_from set and no branch_id registers
\* a new branch, whose id is in no registry entry that existed before, also
\* when the clock has not moved since the last such step.
C34_SynthesizedIdUnique ==
    [][\A input \in BranchInputs :
          /\ input.branch_from # 0 /\ input.branch_id = ""
          /\ config.enableBranching
          /\ ProcessStep(input)
          /\ resp'.returned = "success"
          => Len(Registered(Engine, input, now)) = 1]_vars

\* a step that carries the id of branch b1 and no branch_from
Continuing(n, sid) == [Plain(n, sid) EXCEPT !.branch_id = "b1"]

\* C35: with branching enabled, the steps of every registered branch are
\* exactly the accepted steps tagged with its id, in arrival order: each
\* accepted step is appended to the branch its branch_id names, also when it
\* carries no branch_from, and to no other.
C35_BranchHoldsTaggedSteps ==
    \A input \in BranchInputs \cup {Continuing(n, "A") : n \in StepNumbers} :
        LET r == processStep(Engine, input, now)
        IN r.resp.returned = "success" /\ config.enableBranching =>
            \A i \in DOMAIN r.e.branches :
                LET branch == r.e.branches[i]
                    before == IF branch.id \in BranchIds(Engine)
                              THEN branches[BranchAt(Engine, branch.id)].steps
                              ELSE <<>>
                IN branch.steps =
                       IF r.pushed[1].step.branch_id = branch.id
                       THEN Append(before, Num(input))
                       ELSE before

\* a call that took the engine from `before` to `after` changed the branch
\* structure: it registered a branch, dropped steps, or changed the active
\* history
StructuralChange(before, after) ==
    \/ ~(BranchIds(after) \subseteq BranchIds(before))
    \/ after.history # before.history
    \/ \E h \in DOMAIN before.hist :
          \E i \in DOMAIN before.hist[h].steps :
              \/ i > Len(after.hist[h].steps)
              \/ Num(after.hist[h].steps[i]) # Num(before.hist[h].steps[i])

\* C36: after a call that registers a branch, trims steps away or changes
\* the active history (a step for another session, clearHistory), the
\* branch-depth cache holds no entry that was computed before the call.
C36_CacheEmptiedOnChange ==
    /\ clearHistory(Engine).branchDepthCache = EmptyMap
    /\ \A input \in ChainInputs :
          LET after == processStep(Engine, input, now).e
          IN StructuralChange(Engine, after) =>
                \A n \in DOMAIN branchDepthCache :
                    n \notin DOMAIN after.branchDepthCache

\* the engine after k more invocations of cleanupExpiredSessions(force) at
\* time t
RECURSIVE Invocations(_, _, _, _)
Invocations(e, force, t, k) ==
    IF k = 0 THEN e
    ELSE cleanupExpiredSessions(Invocations(e, force, t, k - 1), force, t)

\* the sessions of e whose last access is more than the timeout before t
Expired(e, t) ==
    {sid \in DOMAIN e.sessions :
        t - e.sessions[sid].lastAccessed > e.config.sessionTimeout * 60000}

\* the times a cleanup is probed at: now, the timeout later, and 1 ms more
ExpiryTimes == {now} \cup {now + ms : ms \in ExpiryDelays(config)}

\* C37: cleanupExpiredSessions removes only sessions whose last access is
\* more than sessionTimeout * 60000 ms old, a forced call removes exactly
\* those and a call that is not forced removes those or none; the sessions
\* that remain, every history and the active history are as before; with
\* sessions disabled the call changes nothing.
C37_OnlyExpiredRemoved ==
    \A force \in BOOLEAN, t \in ExpiryTimes, k \in 0 .. SESSION_CLEANUP_INTERVAL :
        LET before == Invocations(Engine, FALSE, now, k)
            after == cleanupExpiredSessions(before, force, t)
            removed == DOMAIN before.sessions \ DOMAIN after.sessions
        IN IF ~config.enableSessions THEN after = Engine
           ELSE /\ removed \in {{}, Expired(before, t)}
                /\ force => removed = Expired(before, t)
                /\ \A sid \in DOMAIN after.sessions :
                      /\ sid \in DOMAIN before.sessions
                      /\ after.sessions[sid] = before.sessions[sid]
                /\ after.hist = before.hist
                /\ after.history = before.history

\* a session that was given a step has expired and a cleanup has removed it;
\* no expired session is left
C37_Witness ==
    /\ config.enableSessions
    /\ \E i \in DOMAIN log :
          /\ log[i].step.session_id # ""
          /\ log[i].step.session_id \notin DOMAIN sessions
    /\ Expired(Engine, now) = {}

\* the engine after k more calls processStep(input) at time t
RECURSIVE Calls(_, _, _, _)
Calls(e, input, t, k) ==
    IF k = 0 THEN e
    ELSE processStep(Calls(e, input, t, k - 1), input, t).e

\* counted from e, the cleanups that are not forced leave the sessions alone
\* up to the one before the SESSION_CLEANUP_INTERVAL-th, which sweeps
SweepsAtInterval(e, t) ==
    \A k \in 1 .. SESSION_CLEANUP_INTERVAL :
        DOMAIN Invocations(e, FALSE, t, k).sessions =
            IF k < SESSION_CLEANUP_INTERVAL THEN DOMAIN e.sessions
            ELSE DOMAIN e.sessions \ Expired(e, t)

\* sid, expired at time t, is gone after the SESSION_CLEANUP_INTERVAL-th of
\* the calls processStep(input) made from e at time t
RemovedInTime(e, sid, input, t) ==
    sid \in Expired(e, t) =>
        sid \notin DOMAIN Calls(e, input, t, SESSION_CLEANUP_INTERVAL).sessions

\* C38 (as amended): with sessions enabled, a forced cleanup removes the
\* expired sessions; counted from a forced cleanup, from a sweep or from
\* clearHistory, the cleanups that are not forced sweep at the 10th
\* invocation and not before; and a session that has expired and is given
\* no further step is gone after the 10th following valid step that names a
\* session, provided clearHistory is not called in between.
C38_SweepWithinInterval ==
    config.enableSessions =>
        /\ \A t \in ExpiryTimes :
              LET forced == cleanupExpiredSessions(Engine, TRUE, now)
              IN /\ DOMAIN forced.sessions = DOMAIN sessions \ Expired(Engine, now)
                 /\ SweepsAtInterval(forced, t)
                 /\ SweepsAtInterval(
                        Invocations(forced, FALSE, now, SESSION_CLEANUP_INTERVAL), t)
                 /\ SweepsAtInterval(clearHistory(Engine), t)
        /\ \A sid \in DOMAIN sessions, input \in ExpiryInputs, t \in ExpiryTimes,
              j \in 0 .. SESSION_CLEANUP_INTERVAL - 1 :
              input.session_id # sid =>
                  RemovedInTime(Calls(Engine, input, now, j), sid, input, t)

\* C38 (as stated): the expired session is gone after the 10th following
\* valid step that names a session, whatever else is called in between.
C38_SweepWithinIntervalAlways ==
    config.enableSessions =>
        \A sid \in DOMAIN sessions, input \in ExpiryInputs,
           j \in 0 .. SESSION_CLEANUP_INTERVAL :
            input.session_id # sid /\ sid \in Expired(Engine, now) =>
                sid \notin DOMAIN
                    Calls(clearHistory(Calls(Engine, input, now, j)), input, now,
                          SESSION_CLEANUP_INTERVAL - j).sessions

\* a session has expired, and a later step naming another session was
\* accepted without the expired session being swept
C38_Witness ==
    /\ config.enableSessions
    /\ resp.returned = "success"
    /\ \E sid \in Expired(Engine, now) : log[Len(log)].step.session_id # sid

\* every entry of e's depth cache is the depth calculateBranchDepth computes
\* for that step number from e's branch registry with an empty cache
CacheCoherent(e) ==
    \A n \in DOMAIN e.branchDepthCache :
        e.branchDepthCache[n] =
            calculateBranchDepth(invalidateBranchDepthCache(e), n).depth

C40_RevisedByLatestReviser ==
    config.enableRevisions =>
        \A h \in DOMAIN hist :
            \A i \in DOMAIN hist[h].steps :
                LET step == hist[h].steps[i]
                    accepted == PushedTo(h)
                    revisers == {j \in DOMAIN accepted :
                                    accepted[j].revises_step = Num(step)}
                IN step.revised_by # 0 =>
                      /\ step.revised_by > Num(step)
                      /\ revisers # {}
                      /\ step.revised_by =
                            Num(accepted[CHOOSE j \in revisers :
                                            \A k \in revisers : k <= j])

====
